---- MODULE Spec2Model ----
(***************************************************************************)
(* Model of src/agents.py: HiringAgentWorkflow, the four stage functions   *)
(* threaded over one WorkflowState by the compiled stage graph, and the    *)
(* output formatting of process().                                         *)
(*                                                                         *)
(* Python values are tagged records (Str, Num, Null, List); a dict is a    *)
(* function from its keys to values.  A model reply is a sequence of       *)
(* tokens: the bracket characters, prose, and whole JSON members/items.    *)
(***************************************************************************)
EXTENDS Integers, Sequences, FiniteSets, TLC

(***************************************************************************)
(* Bounds of the model and constants of the program.                       *)
(***************************************************************************)
MaxResumes == 2
MaxSortLen == 4
MaxTextLen == 5
PromptTextLimit == 4000
RawTextLimit == 2000
JobTextLimit == 3000
MaxSkills == 10
MaxExperience == 3
MaxResponsibilities == 3

(***************************************************************************)
(* Python / JSON values.                                                   *)
(***************************************************************************)
Str(s) == [t |-> "str", s |-> s]
Num(n) == [t |-> "num", n |-> n]
Null == [t |-> "null"]
List(items) == [t |-> "list", items |-> items]
EmptyDict == [k \in {} |-> Null]

\* d[k] = v
DictSet(d, k, v) == [x \in DOMAIN d \cup {k} |-> IF x = k THEN v ELSE d[x]]
\* d.get(k, default)
DictGet(d, k, default) == IF k \in DOMAIN d THEN d[k] ELSE default
\* k in d
HasKey(d, k) == k \in DOMAIN d

\* s[:n]
Take(s, n) == SubSeq(s, 1, IF Len(s) < n THEN Len(s) ELSE n)

\* sep.join(v[:n]) raises TypeError unless v is a str or a list of str
\* (None and numbers are not subscriptable, a non-str item cannot be joined).
JoinRaises(v) ==
    CASE v.t = "str" -> FALSE
      [] v.t = "list" -> \E i \in 1..Len(v.items) : v.items[i].t # "str"
      [] OTHER -> TRUE

(***************************************************************************)
(* Reply text: tokens.                                                     *)
(***************************************************************************)
LB == [c |-> "{"]
RB == [c |-> "}"]
LS == [c |-> "["]
RS == [c |-> "]"]
Prose == [c |-> "t"]
Member(k, v) == [c |-> "m", key |-> k, val |-> v]
Item(v) == [c |-> "v", val |-> v]

FirstIndex(text, tok) ==
    IF \E i \in 1..Len(text) : text[i] = tok
    THEN CHOOSE i \in 1..Len(text) :
            /\ text[i] = tok
            /\ \A j \in 1..(i - 1) : text[j] # tok
    ELSE 0

LastIndex(text, tok) ==
    IF \E i \in 1..Len(text) : text[i] = tok
    THEN CHOOSE i \in 1..Len(text) :
            /\ text[i] = tok
            /\ \A j \in (i + 1)..Len(text) : text[j] # tok
    ELSE 0

\* a search with a lazy quantifier (open + '.*?' + close): it stops at the
\* first closing bracket after the opening one
ReSearchLazy(open, close, text) ==
    LET a == FirstIndex(text, open)
        after == {k \in (a + 1)..Len(text) : text[k] = close}
    IN  IF a # 0 /\ after # {}
        THEN SubSeq(text, a, CHOOSE b \in after : \A k \in after : b <= k)
        ELSE <<>>

\* re.search(open + '.*' + close, text, re.DOTALL): the leftmost opening
\* bracket that has a closing bracket after it, then greedily to the last
\* closing bracket.  <<>> stands for None (no match).
ReSearch(open, close, text) ==
    LET a == FirstIndex(text, open)
        b == LastIndex(text, close)
    IN  IF a # 0 /\ b > a THEN SubSeq(text, a, b) ELSE <<>>

\* json.loads on a matched span: an object is '{' members '}', an array is
\* '[' items ']'; anything else between the brackets is a JSONDecodeError.
\* A repeated key keeps its last value.
LoadsObject(span) ==
    LET inner == 2..(Len(span) - 1)
        keys == {span[i].key : i \in {j \in inner : span[j].c = "m"}}
        last(k) == CHOOSE i \in inner :
                      /\ span[i].key = k
                      /\ \A j \in inner : (j > i) => span[j].key # k
    IN  IF \A i \in inner : span[i].c = "m"
        THEN [ok |-> TRUE, value |-> [k \in keys |-> span[last(k)].val]]
        ELSE [ok |-> FALSE]

LoadsArray(span) ==
    LET inner == 2..(Len(span) - 1)
    IN  IF \A i \in inner : span[i].c = "v"
        THEN [ok |-> TRUE,
              value |-> List([i \in 1..(Len(span) - 2) |-> span[i + 1].val])]
        ELSE [ok |-> FALSE]

JsonLoads(span) ==
    IF span[1] = LB /\ span[Len(span)] = RB THEN LoadsObject(span)
    ELSE IF span[1] = LS /\ span[Len(span)] = RS THEN LoadsArray(span)
    ELSE [ok |-> FALSE]

(***************************************************************************)
(* Inputs: the batch handed to process(), and the replies the external     *)
(* chat-completion service can give to one call.                           *)
(***************************************************************************)
Names == <<"f1", "f2", "f3", "f4", "f5">>

PdfType == "application/pdf"
TextType == "text/plain"
\* content: the uploaded bytes; valid says whether they decode (utf-8 text)
\* or open (PDF).
Uploads == {[content_type |-> PdfType, content |-> [valid |-> TRUE]],
            [content_type |-> TextType, content |-> [valid |-> TRUE]],
            [content_type |-> TextType, content |-> [valid |-> FALSE]]}

Batches ==
    UNION {[1..n -> Uploads] : n \in 0..MaxResumes}

InputOf(batch) ==
    [i \in 1..Len(batch) |->
        [filename |-> Names[i],
         content_type |-> batch[i].content_type,
         content |-> batch[i].content]]

JobDescriptionText == <<"j", "d">>
ResumeText == <<"c", "v">>
PdfErrorText == <<"[", "E", "]">>

Raise == [kind |-> "raise"]
Text(toks) == [kind |-> "text", text |-> toks]

Skills == List(<<Str("python")>>)

ParseReplies ==
    {Raise,
     Text(<<Prose>>),
     Text(<<LB, Prose, RB>>),
     Text(<<Prose, LB, Member("name", Str("Ann")), Member("skills", Skills),
            Member("filename", Str("other")), RB, Prose>>),
     Text(<<LB, Member("name", Str("Bob")), Member("error", Str("none")), RB>>),
     Text(<<LB, Member("name", Str("Cy")), Member("skills", Null), RB>>)}

AnalyzeReplies ==
    {Raise,
     Text(<<RB, Prose, LB>>),
     Text(<<LB, Member("title", Str("dev")), RB, Prose, RB>>),
     Text(<<LB, Member("title", Str("dev")),
            Member("required_skills", Skills), RB>>),
     Text(<<LB, Member("title", Str("dev")),
            Member("required_skills", Null), RB>>)}

EvaluateReplies ==
    {Raise,
     Text(<<Prose>>),
     Text(<<LB, Member("score", Num(90)), RB, LB, RB>>),
     Text(<<Prose, LB, Member("name", Str("Ann")), Member("score", Num(90)),
            Member("strengths", Skills), Member("filename", Str("other")),
            RB, Prose>>),
     Text(<<LB, Member("score", Num(0)), RB>>),
     Text(<<LB, Member("score", Num(90)), Member("error", Str("none")), RB>>),
     Text(<<LB, Member("score", Num(40)), Member("strengths", Null), RB>>)}

QuestionReplies ==
    {Raise,
     Text(<<Prose>>),
     Text(<<LS, Prose, RS>>),
     Text(<<LS, RS>>),
     Text(<<Prose, LS, Item(Str("q1")), Item(Str("q2")), RS, Prose>>)}

\* str(e) of the exception a failed call or a failed json.loads raises
ServiceError == Str("service error")
JSONDecodeError == Str("json decode error")

\* What the try block of a stage sees of one reply.
ReplyKind(reply, open, close) ==
    IF reply.kind = "raise" THEN "raise"
    ELSE IF ReSearch(open, close, reply.text) = <<>> THEN "nojson"
    ELSE IF JsonLoads(ReSearch(open, close, reply.text)).ok THEN "json"
    ELSE "malformed"

(***************************************************************************)
(* State: the WorkflowState threaded through the graph, the locals of the  *)
(* running stage function, and what process() returns or raises.           *)
(* History: input (the batch as uploaded), calls (every _call_llm made),   *)
(* visited (the nodes that have returned), evaluated (the evaluations as   *)
(* the evaluate node left them).                                           *)
(***************************************************************************)
VARIABLES job_description, resumes, job_analysis, candidate_evaluations,
          pc, i, parsed_resumes, evaluations, result, exception,
          input, calls, visited, evaluated

(***************************************************************************)
(* The per-item work of the four stage functions.                          *)
(***************************************************************************)
TextVal(chars) == [t |-> "text", chars |-> chars]

\* v[:n] inside a prompt
Slice(v, n) ==
    CASE v.t = "list" -> List(Take(v.items, n))
      [] v.t = "str" -> [t |-> "str", s |-> v.s, upto |-> n]
      [] OTHER -> v

\* _extract_text_from_pdf never raises: a PDF that cannot be read yields an
\* error string as the text.
extract_text_from_pdf(content) ==
    IF content.valid THEN ResumeText ELSE PdfErrorText

\* resume["content"].decode("utf-8") sits outside the try block
DecodeRaises(resume) ==
    resume.content_type # PdfType /\ ~resume.content.valid

ResumeTextOf(resume) ==
    IF resume.content_type = PdfType
    THEN extract_text_from_pdf(resume.content)
    ELSE ResumeText

ParsePrompt(text) == [text |-> Take(text, PromptTextLimit)]

ParseError(resume, text, e) ==
    [filename |-> Str(resume.filename),
     error |-> e,
     raw_text |-> TextVal(Take(text, RawTextLimit))]

\* the try/except of _parse_resumes for one resume; a reply in which the
\* pattern finds nothing appends nothing
parse_item(parsed, resume, text, reply) ==
    LET kind == ReplyKind(reply, LB, RB)
        parsed_data == JsonLoads(ReSearch(LB, RB, reply.text)).value
    IN  CASE kind = "raise" -> Append(parsed, ParseError(resume, text, ServiceError))
          [] kind = "malformed" ->
                Append(parsed, ParseError(resume, text, JSONDecodeError))
          [] kind = "json" ->
                Append(parsed,
                       DictSet(DictSet(parsed_data, "filename", Str(resume.filename)),
                               "raw_text", TextVal(Take(text, RawTextLimit))))
          [] OTHER -> parsed

\* a prompt that also quotes the analysis already held by the state
AnalyzePromptWithAnalysis(jd) ==
    [job_description |-> Take(jd, JobTextLimit), previous |-> job_analysis]

AnalyzePrompt(jd) == [job_description |-> Take(jd, JobTextLimit)]

\* the try/except of _analyze_job
analyze(analysis, reply) ==
    LET kind == ReplyKind(reply, LB, RB)
    IN  CASE kind = "raise" -> [error |-> ServiceError]
          [] kind = "malformed" -> [error |-> JSONDecodeError]
          [] kind = "json" -> JsonLoads(ReSearch(LB, RB, reply.text)).value
          [] OTHER -> analysis

NoList == List(<<>>)

\* the f-string of _evaluate_candidates is built outside the try block: a
\* join over a field that is not a str or a list of str raises TypeError
EvaluatePromptRaises(analysis, resume) ==
    \/ JoinRaises(DictGet(analysis, "required_skills", NoList))
    \/ JoinRaises(DictGet(analysis, "key_responsibilities", NoList))
    \/ JoinRaises(DictGet(resume, "skills", NoList))
    \/ JoinRaises(DictGet(resume, "experience", NoList))
    \/ JoinRaises(DictGet(resume, "education", NoList))

EvaluatePrompt(analysis, resume) ==
    [name |-> DictGet(resume, "name", Str("Unknown")),
     email |-> DictGet(resume, "email", Str("N/A")),
     title |-> DictGet(analysis, "title", Str("N/A")),
     experience_required |-> DictGet(analysis, "experience_required", Str("N/A")),
     required_skills |-> DictGet(analysis, "required_skills", NoList),
     key_responsibilities |->
        Slice(DictGet(analysis, "key_responsibilities", NoList), MaxResponsibilities),
     experience_years |-> DictGet(resume, "experience_years", Str("N/A")),
     skills |-> Slice(DictGet(resume, "skills", NoList), MaxSkills),
     experience |-> Slice(DictGet(resume, "experience", NoList), MaxExperience),
     education |-> DictGet(resume, "education", NoList)]

\* forwarding that replaces the message of the parse error by a general one
forward_error_generic(evals, resume) ==
    Append(evals, [filename |-> resume["filename"],
                   error |-> Str("resume could not be parsed")])

\* the branch of _evaluate_candidates for a resume that carries "error"
forward_error(evals, resume) ==
    Append(evals, [filename |-> resume["filename"], error |-> resume["error"]])

EvaluateError(resume, e) ==
    [filename |-> resume["filename"],
     name |-> DictGet(resume, "name", Str("Unknown")),
     error |-> e]

\* an evaluate stage that sets the filename only when the reply has none
\* (evaluation.setdefault("filename", ...))
evaluate_item_setdefault(evals, resume, reply) ==
    LET kind == ReplyKind(reply, LB, RB)
        evaluation == JsonLoads(ReSearch(LB, RB, reply.text)).value
    IN  CASE kind = "raise" -> Append(evals, EvaluateError(resume, ServiceError))
          [] kind = "malformed" -> Append(evals, EvaluateError(resume, JSONDecodeError))
          [] kind = "json" ->
                Append(evals,
                       IF HasKey(evaluation, "filename") THEN evaluation
                       ELSE DictSet(evaluation, "filename", resume["filename"]))
          [] OTHER -> evals

\* the try/except of _evaluate_candidates for one resume
evaluate_item(evals, resume, reply) ==
    LET kind == ReplyKind(reply, LB, RB)
        evaluation == JsonLoads(ReSearch(LB, RB, reply.text)).value
    IN  CASE kind = "raise" -> Append(evals, EvaluateError(resume, ServiceError))
          [] kind = "malformed" -> Append(evals, EvaluateError(resume, JSONDecodeError))
          [] kind = "json" ->
                Append(evals, DictSet(evaluation, "filename", resume["filename"]))
          [] OTHER -> evals

QuestionPromptRaises(evaluation) ==
    \/ JoinRaises(DictGet(evaluation, "strengths", NoList))
    \/ JoinRaises(DictGet(evaluation, "gaps", NoList))

QuestionPrompt(analysis, evaluation) ==
    [title |-> DictGet(analysis, "title", Str("N/A")),
     name |-> DictGet(evaluation, "name", Str("Unknown")),
     score |-> DictGet(evaluation, "score", Str("N/A")),
     strengths |-> DictGet(evaluation, "strengths", NoList),
     gaps |-> DictGet(evaluation, "gaps", NoList)]

QuestionError(e) == List(<<[t |-> "str", s |-> "Error generating questions", e |-> e.s]>>)

\* the try/except of _generate_questions: the value of interview_questions
questions_of(reply) ==
    LET kind == ReplyKind(reply, LS, RS)
    IN  CASE kind = "raise" -> QuestionError(ServiceError)
          [] kind = "malformed" -> QuestionError(JSONDecodeError)
          [] kind = "json" -> JsonLoads(ReSearch(LS, RS, reply.text)).value
          [] OTHER -> NoList

\* an attachment that builds a new record instead of mutating the evaluation
attach_questions_replacing(evaluation, questions) ==
    [filename |-> evaluation["filename"], interview_questions |-> questions]

\* evaluation["interview_questions"] = ...
attach_questions(evaluation, questions) ==
    DictSet(evaluation, "interview_questions", questions)

\* a skip test that looks for the wrong key
skip_questions_wrong_key(evaluation) == HasKey(evaluation, "errors")

\* the test that skips an evaluation in _generate_questions
skip_questions(evaluation) == HasKey(evaluation, "error")

(***************************************************************************)
(* process(): sorted(..., key=lambda x: x.get("score", 0), reverse=True)   *)
(***************************************************************************)
\* a sort key whose default puts entries without a score on top
ScoreKeyDefault100(x) == DictGet(x, "score", Num(100))

ScoreKey(x) == DictGet(x, "score", Num(0))

\* comparing keys raises TypeError as soon as one of two or more is no number
SortRaises(evals) ==
    Len(evals) >= 2 /\ \E k \in 1..Len(evals) : ScoreKey(evals[k]).t # "num"

\* a descending sort that is not stable: x goes in front of its equals
RECURSIVE InsertDescUnstable(_, _)
InsertDescUnstable(sorted, x) ==
    IF sorted = <<>> THEN <<x>>
    ELSE IF ScoreKey(Head(sorted)).n > ScoreKey(x).n
         THEN <<Head(sorted)>> \o InsertDescUnstable(Tail(sorted), x)
         ELSE <<x>> \o sorted

\* x goes behind every entry whose key is not smaller: equal keys keep the
\* order in which they arrive
RECURSIVE InsertDesc(_, _)
InsertDesc(sorted, x) ==
    IF sorted = <<>> THEN <<x>>
    ELSE IF ScoreKey(Head(sorted)).n >= ScoreKey(x).n
         THEN <<Head(sorted)>> \o InsertDesc(Tail(sorted), x)
         ELSE <<x>> \o sorted

RECURSIVE SortedDesc(_)
SortedDesc(evals) ==
    IF Len(evals) <= 1 THEN evals
    ELSE InsertDesc(SortedDesc(SubSeq(evals, 1, Len(evals) - 1)), evals[Len(evals)])

vars == <<job_description, resumes, job_analysis, candidate_evaluations,
          pc, i, parsed_resumes, evaluations, result, exception,
          input, calls, visited, evaluated>>

state == <<job_description, resumes, job_analysis, candidate_evaluations>>
NoResult == [none |-> TRUE]

Call(stage, filename, reply, open, close, prompt) ==
    [stage |-> stage, filename |-> filename,
     kind |-> ReplyKind(reply, open, close), prompt |-> prompt,
     reply |-> reply]

\* process(): initial_state, then the graph starts at its entry point
Init ==
    /\ \E batch \in Batches : input = InputOf(batch)
    /\ job_description = JobDescriptionText
    /\ resumes = input
    /\ job_analysis = EmptyDict
    /\ candidate_evaluations = <<>>
    /\ pc = "parse_resumes"
    /\ i = 1
    /\ parsed_resumes = <<>>
    /\ evaluations = <<>>
    /\ result = NoResult
    /\ exception = ""
    /\ calls = <<>>
    /\ visited = <<>>
    /\ evaluated = <<>>

\* an exception leaves the stage function, the graph and process()
Propagate(e) ==
    /\ pc' = "raised"
    /\ exception' = e
    /\ UNCHANGED <<state, i, parsed_resumes, evaluations, result,
                   input, calls, visited, evaluated>>

\* one iteration of the loop of _parse_resumes
parse_resumes_item_from(replies) ==
    /\ pc = "parse_resumes"
    /\ i <= Len(resumes)
    /\ LET resume == resumes[i]
           text == ResumeTextOf(resume)
       IN  \/ /\ DecodeRaises(resume)
              /\ Propagate("UnicodeDecodeError")
           \/ /\ ~DecodeRaises(resume)
              /\ \E reply \in replies :
                    /\ parsed_resumes' = parse_item(parsed_resumes, resume, text, reply)
                    /\ calls' = Append(calls, Call("parse_resumes", resume.filename,
                                                   reply, LB, RB, ParsePrompt(text)))
              /\ i' = i + 1
              /\ UNCHANGED <<state, pc, evaluations, result, exception,
                             input, visited, evaluated>>

parse_resumes_item == parse_resumes_item_from(ParseReplies)

\* state["resumes"] = parsed_resumes; return state; edge to analyze_job
parse_resumes_return ==
    /\ pc = "parse_resumes"
    /\ i > Len(resumes)
    /\ resumes' = parsed_resumes
    /\ pc' = "analyze_job"
    /\ visited' = Append(visited, "parse_resumes")
    /\ i' = 1
    /\ UNCHANGED <<job_description, job_analysis, candidate_evaluations,
                   parsed_resumes, evaluations, result, exception,
                   input, calls, evaluated>>

\* _analyze_job; edge to evaluate_candidates
analyze_job_from(replies) ==
    /\ pc = "analyze_job"
    /\ \E reply \in replies :
          /\ job_analysis' = analyze(job_analysis, reply)
          /\ calls' = Append(calls, Call("analyze_job", "", reply, LB, RB,
                                         AnalyzePrompt(job_description)))
    /\ pc' = "evaluate_candidates"
    /\ visited' = Append(visited, "analyze_job")
    /\ i' = 1
    /\ UNCHANGED <<job_description, resumes, candidate_evaluations,
                   parsed_resumes, evaluations, result, exception,
                   input, evaluated>>

\* an analyze node that asks the llm again, up to twice, when the call fails
analyze_job_retrying ==
    /\ pc = "analyze_job"
    /\ \E reply \in AnalyzeReplies :
          LET again == reply.kind = "raise" /\ Len(calls) <= Len(input) + 1
          IN  /\ job_analysis' = analyze(job_analysis, reply)
              /\ calls' = Append(calls, Call("analyze_job", "", reply, LB, RB,
                                             AnalyzePrompt(job_description)))
              /\ pc' = IF again THEN "analyze_job" ELSE "evaluate_candidates"
              /\ visited' = IF again THEN visited ELSE Append(visited, "analyze_job")
    /\ i' = 1
    /\ UNCHANGED <<job_description, resumes, candidate_evaluations,
                   parsed_resumes, evaluations, result, exception,
                   input, evaluated>>

analyze_job == analyze_job_from(AnalyzeReplies)

\* one iteration of the loop of _evaluate_candidates
evaluate_candidates_item ==
    /\ pc = "evaluate_candidates"
    /\ i <= Len(resumes)
    /\ LET resume == resumes[i]
       IN  \/ /\ HasKey(resume, "error")
              /\ evaluations' = forward_error(evaluations, resume)
              /\ i' = i + 1
              /\ UNCHANGED <<state, pc, parsed_resumes, result, exception,
                             input, calls, visited, evaluated>>
           \/ /\ ~HasKey(resume, "error")
              /\ EvaluatePromptRaises(job_analysis, resume)
              /\ Propagate("TypeError")
           \/ /\ ~HasKey(resume, "error")
              /\ ~EvaluatePromptRaises(job_analysis, resume)
              /\ \E reply \in EvaluateReplies :
                    /\ evaluations' = evaluate_item(evaluations, resume, reply)
                    /\ calls' = Append(calls,
                          Call("evaluate_candidates", resume["filename"].s, reply,
                               LB, RB, EvaluatePrompt(job_analysis, resume)))
              /\ i' = i + 1
              /\ UNCHANGED <<state, pc, parsed_resumes, result, exception,
                             input, visited, evaluated>>

\* state["candidate_evaluations"] = evaluations; return state; edge to
\* generate_questions
evaluate_candidates_return ==
    /\ pc = "evaluate_candidates"
    /\ i > Len(resumes)
    /\ candidate_evaluations' = evaluations
    /\ evaluated' = evaluations
    /\ pc' = "generate_questions"
    /\ visited' = Append(visited, "evaluate_candidates")
    /\ i' = 1
    /\ UNCHANGED <<job_description, resumes, job_analysis, parsed_resumes,
                   evaluations, result, exception, input, calls>>

\* one iteration of the loop of _generate_questions
generate_questions_item_from(replies) ==
    /\ pc = "generate_questions"
    /\ i <= Len(candidate_evaluations)
    /\ LET evaluation == candidate_evaluations[i]
       IN  \/ /\ skip_questions(evaluation)
              /\ i' = i + 1
              /\ UNCHANGED <<state, pc, parsed_resumes, evaluations, result,
                             exception, input, calls, visited, evaluated>>
           \/ /\ ~skip_questions(evaluation)
              /\ QuestionPromptRaises(evaluation)
              /\ Propagate("TypeError")
           \/ /\ ~skip_questions(evaluation)
              /\ ~QuestionPromptRaises(evaluation)
              /\ \E reply \in replies :
                    /\ candidate_evaluations' =
                          [candidate_evaluations EXCEPT
                              ![i] = attach_questions(@, questions_of(reply))]
                    /\ calls' = Append(calls,
                          Call("generate_questions", evaluation["filename"].s, reply,
                               LS, RS, QuestionPrompt(job_analysis, evaluation)))
              /\ i' = i + 1
              /\ UNCHANGED <<job_description, resumes, job_analysis, pc,
                             parsed_resumes, evaluations, result, exception,
                             input, visited, evaluated>>

generate_questions_item == generate_questions_item_from(QuestionReplies)

\* return state; edge to END: invoke() hands back the final state
generate_questions_return ==
    /\ pc = "generate_questions"
    /\ i > Len(candidate_evaluations)
    /\ pc' = "format"
    /\ visited' = Append(visited, "generate_questions")
    /\ UNCHANGED <<state, i, parsed_resumes, evaluations, result, exception,
                   input, calls, evaluated>>

\* process(): build and return the result
format_output ==
    /\ pc = "format"
    /\ \/ /\ SortRaises(candidate_evaluations)
          /\ Propagate("TypeError")
       \/ /\ ~SortRaises(candidate_evaluations)
          /\ result' = [job_analysis |-> job_analysis,
                        candidates |-> SortedDesc(candidate_evaluations)]
          /\ pc' = "returned"
          /\ UNCHANGED <<state, i, parsed_resumes, evaluations, exception,
                         input, calls, visited, evaluated>>

Next ==
    \/ parse_resumes_item
    \/ parse_resumes_return
    \/ analyze_job
    \/ evaluate_candidates_item
    \/ evaluate_candidates_return
    \/ generate_questions_item
    \/ generate_questions_return
    \/ format_output

Spec == Init /\ [][Next]_vars

(***************************************************************************)
(* SpecSort: the output formatting of process() on its own, applied to     *)
(* every list of up to MaxSortLen evaluations that the evaluate and        *)
(* question stages can leave behind.                                       *)
(***************************************************************************)
SortUpload(p) ==
    [filename |-> Names[p], content_type |-> PdfType, content |-> [valid |-> TRUE]]

\* replies to the evaluation call whose evaluation reaches the sort
SortReplies ==
    <<Raise,
      Text(<<LB, Prose, RB>>),
      Text(<<LB, Member("name", Str("Ann")), Member("score", Num(90)), RB>>),
      Text(<<LB, Member("score", Num(40)), RB>>),
      Text(<<LB, Member("score", Num(0)), RB>>),
      Text(<<LB, Member("name", Str("Dee")), RB>>),
      Text(<<LB, Member("score", Null), RB>>),
      Text(<<LB, Member("score", Num(90)), Member("error", Str("none")), RB>>)>>

SortQuestions == Text(<<LS, Item(Str("q1")), RS>>)

\* the evaluation of the resume at position p: 0 is a resume whose parsing
\* failed, k > 0 one that was parsed and whose evaluation call got reply k
SortEvaluation(p, k) ==
    LET failed == parse_item(<<>>, SortUpload(p), ResumeText, Raise)[1]
        parsed == parse_item(<<>>, SortUpload(p), ResumeText,
                             Text(<<LB, Member("name", Str("Ann")), RB>>))[1]
        e == IF k = 0 THEN forward_error(<<>>, failed)[1]
             ELSE evaluate_item(<<>>, parsed, SortReplies[k])[1]
    IN  IF skip_questions(e) THEN e
        ELSE DictSet(e, "interview_questions", questions_of(SortQuestions))

InitSort ==
    /\ \E n \in 0..MaxSortLen : \E f \in [1..n -> 0..Len(SortReplies)] :
          candidate_evaluations = [p \in 1..n |-> SortEvaluation(p, f[p])]
    /\ input = [p \in 1..Len(candidate_evaluations) |-> SortUpload(p)]
    /\ job_description = JobDescriptionText
    /\ resumes = <<>>
    /\ job_analysis = EmptyDict
    /\ pc = "format"
    /\ i = 1
    /\ parsed_resumes = <<>>
    /\ evaluations = candidate_evaluations
    /\ result = NoResult
    /\ exception = ""
    /\ calls = <<>>
    /\ visited = <<"parse_resumes", "analyze_job", "evaluate_candidates",
                   "generate_questions">>
    /\ evaluated = candidate_evaluations

NextSort == format_output

SpecSort == InitSort /\ [][NextSort]_vars

(***************************************************************************)
(* SpecAnalyze: the parse node, then _analyze_job called twice on the same *)
(* state through an llm that answers the same prompt with the same reply.  *)
(***************************************************************************)
\* the reply is the one the llm gave before to this prompt, if it was asked
SameReplyForSamePrompt(prompt, reply) ==
    \A k \in 1..Len(calls) :
        (calls[k].stage = "analyze_job" /\ calls[k].prompt = prompt)
            => reply = calls[k].reply

\* _analyze_job on the state that the first _analyze_job returned
analyze_job_again ==
    /\ pc = "evaluate_candidates"
    /\ \E reply \in AnalyzeReplies :
          /\ SameReplyForSamePrompt(AnalyzePrompt(job_description), reply)
          /\ job_analysis' = analyze(job_analysis, reply)
          /\ calls' = Append(calls, Call("analyze_job", "", reply, LB, RB,
                                         AnalyzePrompt(job_description)))
    /\ pc' = "analyzed_twice"
    /\ UNCHANGED <<job_description, resumes, candidate_evaluations, i,
                   parsed_resumes, evaluations, result, exception,
                   input, visited, evaluated>>

NextAnalyze ==
    \/ parse_resumes_item
    \/ parse_resumes_return
    \/ analyze_job
    \/ analyze_job_again

SpecAnalyze == Init /\ [][NextAnalyze]_vars

(***************************************************************************)
(* SpecExtract: one parsing call and one question call, each answered by   *)
(* every text of up to MaxTextLen tokens, or by a failure of the service.  *)
(***************************************************************************)
Tokens == {LB, RB, LS, RS, Prose, Member("name", Str("Ann")), Item(Str("q1"))}
Texts == UNION {[1..n -> Tokens] : n \in 0..MaxTextLen}
ExtractReplies == {Raise} \cup {Text(toks) : toks \in Texts}

ExtractUpload == [filename |-> Names[1], content_type |-> PdfType,
                  content |-> [valid |-> TRUE]]

\* the run over ExtractUpload up to the start of the question stage
ExtractParseReply ==
    Text(<<Prose, LB, Member("name", Str("Ann")), Member("skills", Skills),
           Member("filename", Str("other")), RB, Prose>>)
ExtractAnalyzeReply ==
    Text(<<LB, Member("title", Str("dev")), Member("required_skills", Skills), RB>>)
ExtractEvaluateReply == Text(<<LB, Member("score", Num(0)), RB>>)
ExtractResumes ==
    parse_item(<<>>, ExtractUpload, ResumeTextOf(ExtractUpload), ExtractParseReply)
ExtractAnalysis == analyze(EmptyDict, ExtractAnalyzeReply)
ExtractEvaluations == evaluate_item(<<>>, ExtractResumes[1], ExtractEvaluateReply)
ExtractCalls ==
    <<Call("parse_resumes", ExtractUpload.filename, ExtractParseReply, LB, RB,
           ParsePrompt(ResumeTextOf(ExtractUpload))),
      Call("analyze_job", "", ExtractAnalyzeReply, LB, RB,
           AnalyzePrompt(JobDescriptionText)),
      Call("evaluate_candidates", ExtractUpload.filename, ExtractEvaluateReply,
           LB, RB, EvaluatePrompt(ExtractAnalysis, ExtractResumes[1]))>>

\* the state at the entry of the parse stage, or at the entry of the
\* question stage
InitExtract ==
    /\ input = <<ExtractUpload>>
    /\ job_description = JobDescriptionText
    /\ i = 1
    /\ result = NoResult
    /\ exception = ""
    /\ \/ /\ pc = "parse_resumes"
          /\ resumes = input
          /\ job_analysis = EmptyDict
          /\ candidate_evaluations = <<>>
          /\ parsed_resumes = <<>>
          /\ evaluations = <<>>
          /\ calls = <<>>
          /\ visited = <<>>
          /\ evaluated = <<>>
       \/ /\ pc = "generate_questions"
          /\ resumes = ExtractResumes
          /\ job_analysis = ExtractAnalysis
          /\ candidate_evaluations = ExtractEvaluations
          /\ parsed_resumes = ExtractResumes
          /\ evaluations = ExtractEvaluations
          /\ calls = ExtractCalls
          /\ visited = <<"parse_resumes", "analyze_job", "evaluate_candidates">>
          /\ evaluated = ExtractEvaluations

NextExtract ==
    \/ parse_resumes_item_from(ExtractReplies)
    \/ generate_questions_item_from(ExtractReplies)

SpecExtract == InitExtract /\ [][NextExtract]_vars

(***************************************************************************)
(* Properties.                                                             *)
(***************************************************************************)
IsError(x) == HasKey(x, "error")
Terminal == pc \in {"returned", "raised"}
Chain == <<"parse_resumes", "analyze_job", "evaluate_candidates",
           "generate_questions">>
CallsOf(stage) == {k \in 1..Len(calls) : calls[k].stage = stage}
ErrorsIn(seq) == {k \in 1..Len(seq) : IsError(seq[k])}
FullIn(seq) == {k \in 1..Len(seq) : ~IsError(seq[k])}

\* C1: the candidates returned by a run over N resumes has exactly N
\* entries, whatever the outcome of each call.
C1_Cardinality ==
    pc = "returned" => Len(result.candidates) = Len(input)

\* a dict taken from a reply of the expected shape: no "error" key of the
\* model's own and no null field
WellFormed(d) == ~IsError(d) /\ \A key \in DOMAIN d : d[key].t # "null"

\* every upload can be read, exactly one call of the run got a reply without
\* a JSON object, it was a call for a resume, and every other call got
\* well-formed JSON of the expected shape
OneReplyWithoutJson ==
    /\ \A k \in 1..Len(input) : ~DecodeRaises(input[k])
    /\ Cardinality({k \in 1..Len(calls) : calls[k].kind = "nojson"}) = 1
    /\ \A k \in 1..Len(calls) :
          \/ calls[k].kind = "json"
          \/ /\ calls[k].kind = "nojson"
             /\ calls[k].stage \in {"parse_resumes", "evaluate_candidates"}
    /\ \A k \in 1..Len(parsed_resumes) : WellFormed(parsed_resumes[k])
    /\ \A k \in 1..Len(evaluations) : WellFormed(evaluations[k])
    /\ WellFormed(job_analysis)

\* C2: when exactly one resume of a batch of N gets a reply without JSON
\* and every other call succeeds, the run raises nothing and its result
\* holds one error-variant evaluation and N-1 full ones.
C2_ErrorContainment ==
    (Terminal /\ OneReplyWithoutJson) =>
        /\ pc = "returned"
        /\ Cardinality(ErrorsIn(result.candidates)) = 1
        /\ Cardinality(FullIn(result.candidates)) = Len(input) - 1

\* the item named by call k has an error-variant record in seq
RecordedAsError(k, seq) ==
    \E j \in 1..Len(seq) :
        /\ seq[j]["filename"] = Str(calls[k].filename)
        /\ IsError(seq[j])

\* C3: every failure of one resume in the parse stage or in the evaluate
\* stage becomes that item's error variant (filename and error); none
\* leaves the stage loop.
C3_FailureIsolation ==
    /\ ~(pc = "raised" /\ Len(visited) \in {0, 2})
    /\ Len(visited) >= 1 =>
          \A k \in CallsOf("parse_resumes") :
              calls[k].kind # "json" => RecordedAsError(k, resumes)
    /\ Len(visited) >= 3 =>
          \A k \in CallsOf("evaluate_candidates") :
              calls[k].kind # "json" => RecordedAsError(k, evaluated)

\* C4: in the final output every evaluation that is not in error state has
\* interview_questions, a non-empty list, and just one error string when its
\* question call did not yield an array.
C4_QuestionTotality ==
    pc = "returned" =>
        \A j \in FullIn(result.candidates) :
            LET e == result.candidates[j]
            IN  /\ HasKey(e, "interview_questions")
                /\ e["interview_questions"].t = "list"
                /\ Len(e["interview_questions"].items) >= 1
                /\ \A k \in CallsOf("generate_questions") :
                      (Str(calls[k].filename) = e["filename"] /\ calls[k].kind # "json")
                          => Len(e["interview_questions"].items) = 1

\* C5: an evaluation in error state when the question stage starts is left
\* as it was, gets no call, and is in the final output.
C5_SkipOnError ==
    Len(visited) >= 3 =>
        /\ Len(candidate_evaluations) = Len(evaluated)
        /\ \A k \in ErrorsIn(evaluated) :
              /\ candidate_evaluations[k] = evaluated[k]
              /\ \A c \in CallsOf("generate_questions") :
                    Str(calls[c].filename) # evaluated[k]["filename"]
              /\ pc = "returned" =>
                    \E j \in 1..Len(result.candidates) :
                        result.candidates[j] = evaluated[k]

\* a returned run in which the question stage skipped an evaluation in error
\* state and gave questions to another
C5_Witness ==
    /\ pc = "returned"
    /\ ErrorsIn(evaluated) # {}
    /\ \E k \in FullIn(evaluated) :
          HasKey(candidate_evaluations[k], "interview_questions")

EffectiveScore(x) == IF HasKey(x, "score") THEN x["score"].n ELSE 0
BatchPosition(x) ==
    CHOOSE k \in 1..Len(candidate_evaluations) : candidate_evaluations[k] = x

\* C6: the returned candidates is candidate_evaluations reordered by score
\* descending, a missing score counting as 0, equal scores in batch order,
\* nothing dropped or duplicated.
C6_ResultOrdering ==
    pc = "returned" =>
        LET c == result.candidates
        IN  /\ Len(c) = Len(candidate_evaluations)
            /\ \A k \in 1..Len(candidate_evaluations) :
                  \E j \in 1..Len(c) : c[j] = candidate_evaluations[k]
            /\ \A j, l \in 1..Len(c) :
                  j < l =>
                     /\ EffectiveScore(c[j]) >= EffectiveScore(c[l])
                     /\ EffectiveScore(c[j]) = EffectiveScore(c[l])
                           => BatchPosition(c[j]) < BatchPosition(c[l])

\* the scores [40, 90, error, 90] come back as [90, 90, 40, error], the two
\* 90s in batch order
C6_Witness ==
    /\ pc = "returned"
    /\ Len(candidate_evaluations) = 4
    /\ IsError(candidate_evaluations[3])
    /\ [k \in {1, 2, 4} |-> EffectiveScore(candidate_evaluations[k])]
          = [k \in {1, 2, 4} |-> IF k = 1 THEN 40 ELSE 90]
    /\ [j \in 1..4 |-> result.candidates[j]["filename"].s]
          = <<"f2", "f4", "f1", "f3">>

\* an error variant as the stages build it carries no score
ErrorVariant(x) == IsError(x) /\ ~HasKey(x, "score")
Scored(x) == ~IsError(x) /\ HasKey(x, "score")

\* C7 as stated: every entry in error state comes after every scored
\* evaluation.
C7_ErrorsLast ==
    pc = "returned" =>
        \A j, l \in 1..Len(result.candidates) :
            j < l => ~(ErrorVariant(result.candidates[j]) /\ Scored(result.candidates[l]))

\* C7 amended: every entry in error state that carries no score comes after
\* every scored evaluation whose score is greater than 0.
C7_ErrorsAfterPositive ==
    pc = "returned" =>
        \A j, l \in 1..Len(result.candidates) :
            j < l => ~(/\ ErrorVariant(result.candidates[j])
                       /\ Scored(result.candidates[l])
                       /\ result.candidates[l]["score"].n > 0)

\* an error entry that stood before a scored evaluation in the batch has
\* been moved behind it
C7_Witness ==
    /\ pc = "returned"
    /\ Len(candidate_evaluations) >= 2
    /\ ErrorVariant(candidate_evaluations[1])
    /\ Scored(candidate_evaluations[2])
    /\ \E j, l \in 1..Len(result.candidates) :
          /\ j < l
          /\ result.candidates[j] = candidate_evaluations[2]
          /\ result.candidates[l] = candidate_evaluations[1]

\* C8: when the evaluate stage completes, candidate_evaluations is as long
\* as resumes and its entry at each position has that resume's filename.
C8_ParallelEvaluations ==
    Len(visited) >= 3 =>
        /\ Len(evaluated) = Len(resumes)
        /\ \A k \in 1..Len(resumes) : evaluated[k]["filename"] = resumes[k]["filename"]

\* C9: when the analyze stage ends with the error variant of job_analysis,
\* the run goes on, the evaluate stage makes one call (with the default
\* requirement fields) for every resume not in error state, and the run
\* returns a result that holds that error variant.
C9_AnalysisNotFatal ==
    (Len(visited) >= 2 /\ IsError(job_analysis)) =>
        /\ pc # "raised"
        /\ \A k \in CallsOf("evaluate_candidates") :
              /\ calls[k].prompt.title = Str("N/A")
              /\ calls[k].prompt.required_skills = NoList
        /\ Len(visited) >= 3 =>
              Cardinality(CallsOf("evaluate_candidates")) = Cardinality(FullIn(resumes))
        /\ pc = "returned" => result.job_analysis = job_analysis

StageRank(stage) == CHOOSE r \in 1..Len(Chain) : Chain[r] = stage

\* C10: every run executes parse, analyze, evaluate, generate-questions and
\* then ends, each stage once and only after its predecessors completed; no
\* call of a stage is issued before the stage before it has returned.
C10_StageOrder ==
    /\ Len(visited) <= Len(Chain)
    /\ visited = SubSeq(Chain, 1, Len(visited))
    /\ \A k \in 1..Len(calls) :
          /\ StageRank(calls[k].stage) <= Len(visited) + 1
          /\ \A j \in 1..(k - 1) :
                StageRank(calls[j].stage) <= StageRank(calls[k].stage)
    /\ Terminal => visited = Chain

\* every upload of the batch can be read as text
ReadableBatch == \A k \in 1..Len(input) : ~DecodeRaises(input[k])

\* C11: for every well-formed batch and every outcome of each call, the run
\* raises nothing, and when it ends it has passed through all four stages
\* and returned a result.
C11_RunCompletes ==
    ReadableBatch =>
        /\ pc # "raised"
        /\ pc = "returned" => (visited = Chain /\ result # NoResult)

\* C12: a second run of the analyze stage on the same job description, with
\* an llm that gives the same reply to the same prompt, leaves job_analysis
\* as the first run left it.
C12_AnalyzeIdempotent ==
    [][pc' = "analyzed_twice" => job_analysis' = job_analysis]_vars

\* the analyze stage ran twice, both calls failed in the service and the
\* error variant of the first run is still there
C12_Witness ==
    /\ pc = "analyzed_twice"
    /\ Cardinality(CallsOf("analyze_job")) = 2
    /\ \A k \in CallsOf("analyze_job") : calls[k].kind = "raise"
    /\ job_analysis = [error |-> ServiceError]

\* C13: after the parse stage resumes is as long as the batch, and the
\* record at each position carries the filename of the upload at that
\* position, whatever the outcome of each parsing call.
C13_ParsePreservesBatch ==
    Len(visited) >= 1 =>
        /\ Len(resumes) = Len(input)
        /\ \A k \in 1..Len(input) : resumes[k]["filename"] = Str(input[k].filename)

\* the resumes the loop of the evaluate stage has dealt with so far
EvaluateDone ==
    IF Len(visited) >= 3 THEN resumes
    ELSE IF Len(visited) = 2 /\ pc \in {"evaluate_candidates", "raised"}
         THEN SubSeq(resumes, 1, i - 1)
    ELSE <<>>

\* C14: for every resume in error state the evaluate stage emits the
\* evaluation {filename, error} with that resume's filename and error and
\* makes no call; its calls are as many as the resumes not in error state.
C14_ForwardParseErrors ==
    /\ \A k \in ErrorsIn(EvaluateDone) :
          /\ \E j \in 1..Len(evaluations) :
                evaluations[j] = [filename |-> resumes[k]["filename"],
                                  error |-> resumes[k]["error"]]
          /\ \A c \in CallsOf("evaluate_candidates") :
                Str(calls[c].filename) # resumes[k]["filename"]
    /\ Cardinality(CallsOf("evaluate_candidates")) = Cardinality(FullIn(EvaluateDone))

\* the evaluate stage has returned for a batch of one resume whose parsing
\* call failed in the service and one that was parsed and got its call
C14_Witness ==
    /\ Len(visited) >= 3
    /\ Len(resumes) = 2
    /\ \E k \in ErrorsIn(resumes) : resumes[k]["error"] = ServiceError
    /\ Cardinality(FullIn(resumes)) = 1
    /\ Cardinality(CallsOf("evaluate_candidates")) = 1

\* C15: after the analyze stage job_analysis is the record parsed from the
\* reply when the reply held JSON and the error variant for every other
\* outcome of the call; it is never the initial empty dict.
C15_AnalysisNeverEmpty ==
    Len(visited) >= 2 =>
        /\ job_analysis # EmptyDict
        /\ \A k \in CallsOf("analyze_job") :
              IF calls[k].kind = "json"
              THEN job_analysis = JsonLoads(ReSearch(LB, RB, calls[k].reply.text)).value
              ELSE IsError(job_analysis)

\* C16: no unit of work calls the llm twice: a run over N resumes makes at
\* most 3N+1 calls, at most one in the analyze stage and at most one per
\* stage and filename, so no failed call is repeated.
C16_NoRetry ==
    /\ Len(calls) <= 3 * Len(input) + 1
    /\ Cardinality(CallsOf("analyze_job")) <= 1
    /\ Cardinality({<<calls[k].stage, calls[k].filename>> : k \in 1..Len(calls)})
          = Len(calls)

\* a returned run over two resumes that made all 3N+1 = 7 calls, of which
\* the analyze call and a question call failed in the service
C16_Witness ==
    /\ pc = "returned"
    /\ Len(input) = 2
    /\ Len(calls) = 7
    /\ \E k \in CallsOf("analyze_job") : calls[k].kind = "raise"
    /\ \E k \in CallsOf("generate_questions") : calls[k].kind = "raise"

\* the fields of evaluation x other than interview_questions are those of y
SameButQuestions(x, y) ==
    /\ DOMAIN x \ {"interview_questions"} = DOMAIN y \ {"interview_questions"}
    /\ \A key \in DOMAIN x \ {"interview_questions"} : x[key] = y[key]

\* C17: a step of the question stage leaves job_description, resumes and
\* job_analysis unchanged, keeps the length and order of
\* candidate_evaluations, and changes no field of an evaluation other than
\* interview_questions.
C17_QuestionFrame ==
    [][pc = "generate_questions" =>
          /\ job_description' = job_description
          /\ resumes' = resumes
          /\ job_analysis' = job_analysis
          /\ Len(candidate_evaluations') = Len(candidate_evaluations)
          /\ \A k \in 1..Len(candidate_evaluations) :
                SameButQuestions(candidate_evaluations'[k], candidate_evaluations[k])
      ]_vars

\* the question stage has returned after attaching questions to both
\* evaluations of a batch of two
C17_Witness ==
    /\ Len(visited) = 4
    /\ Len(candidate_evaluations) = 2
    /\ \A k \in 1..2 :
          /\ HasKey(candidate_evaluations[k], "interview_questions")
          /\ ~HasKey(evaluated[k], "interview_questions")
          /\ HasKey(evaluated[k], "score")

\* the keys of the error variants as the stages build them
ErrorVariantKeys == {"filename", "error", "raw_text", "name"}

\* a call for the resume of record x, in the parse or the evaluate stage, that
\* did not yield JSON
OwnUnitFailed(x) ==
    \E k \in 1..Len(calls) :
        /\ calls[k].stage \in {"parse_resumes", "evaluate_candidates"}
        /\ Str(calls[k].filename) = x["filename"]
        /\ calls[k].kind # "json"

Exclusive(x) ==
    IsError(x) => (DOMAIN x \subseteq ErrorVariantKeys /\ OwnUnitFailed(x))

\* C18: every resume record and every evaluation is in its full variant or
\* in its error variant, never both, and carries "error" only if a call for
\* its resume failed, also when a JSON reply has a key named "error".
C18_VariantsExclusive ==
    /\ \A k \in 1..Len(parsed_resumes) : Exclusive(parsed_resumes[k])
    /\ \A k \in 1..Len(evaluations) : Exclusive(evaluations[k])
    /\ \A k \in 1..Len(candidate_evaluations) : Exclusive(candidate_evaluations[k])

\* the text has an opening bracket with a closing bracket after it
HasSpan(open, close, text) ==
    \E a, b \in 1..Len(text) : a < b /\ text[a] = open /\ text[b] = close

\* from the first opening bracket of the text to its last closing bracket
FirstToLast(open, close, text) ==
    LET a == CHOOSE k \in 1..Len(text) :
                /\ text[k] = open
                /\ \A j \in 1..Len(text) : text[j] = open => k <= j
        b == CHOOSE k \in 1..Len(text) :
                /\ text[k] = close
                /\ \A j \in 1..Len(text) : text[j] = close => j <= k
    IN  SubSeq(text, a, b)

TextCalls(stage) == {c \in CallsOf(stage) : calls[c].reply.kind = "text"}
RecordsOf(seq, c) ==
    {j \in 1..Len(seq) : seq[j]["filename"] = Str(calls[c].filename)}

\* C19: what a stage does with a reply text is what the JSON parser makes
\* of the span from the first opening bracket to the last closing bracket
\* of the text; a text without such a span gives no record (the empty
\* question list), which differs from what a span that fails to parse gives.
C19_ExtractionSpan ==
    /\ \A c \in TextCalls("parse_resumes") :
          LET text == calls[c].reply.text
              loaded == JsonLoads(FirstToLast(LB, RB, text))
              recs == RecordsOf(parsed_resumes, c)
          IN  IF ~HasSpan(LB, RB, text) THEN recs = {}
              ELSE /\ Cardinality(recs) = 1
                   /\ \A j \in recs :
                         IF loaded.ok
                         THEN /\ DOMAIN parsed_resumes[j]
                                    = DOMAIN loaded.value \cup {"filename", "raw_text"}
                              /\ \A key \in DOMAIN loaded.value \ {"filename", "raw_text"} :
                                    parsed_resumes[j][key] = loaded.value[key]
                         ELSE /\ IsError(parsed_resumes[j])
                              /\ parsed_resumes[j]["error"] = JSONDecodeError
    /\ \A c \in TextCalls("generate_questions") :
          LET text == calls[c].reply.text
              loaded == JsonLoads(FirstToLast(LS, RS, text))
          IN  \A j \in RecordsOf(candidate_evaluations, c) :
                 /\ HasKey(candidate_evaluations[j], "interview_questions")
                 /\ candidate_evaluations[j]["interview_questions"] =
                       IF ~HasSpan(LS, RS, text) THEN NoList
                       ELSE IF loaded.ok THEN loaded.value
                       ELSE QuestionError(JSONDecodeError)

\* a question reply with prose before and after the array gave its one item
C19_Witness ==
    /\ \E c \in TextCalls("generate_questions") :
          calls[c].reply.text = <<Prose, LS, Item(Str("q1")), RS, Prose>>
    /\ candidate_evaluations[1]["interview_questions"] = List(<<Str("q1")>>)

InputFilenames == {Str(input[k].filename) : k \in 1..Len(input)}
NamedAfterInput(seq) == \A k \in 1..Len(seq) : seq[k]["filename"] \in InputFilenames

\* C20: every record of resumes after the parse stage, every entry of
\* candidate_evaluations and every returned candidate carries the filename
\* of an upload of the batch, also when the JSON reply has a filename key.
C20_FilenameIntegrity ==
    /\ NamedAfterInput(parsed_resumes)
    /\ Len(visited) >= 1 => NamedAfterInput(resumes)
    /\ NamedAfterInput(evaluations)
    /\ NamedAfterInput(candidate_evaluations)
    /\ pc = "returned" => NamedAfterInput(result.candidates)

\* a returned run in which the parsing reply and the evaluation reply for
\* the one resume both had a "filename" member naming another file
C20_Witness ==
    /\ pc = "returned"
    /\ Len(result.candidates) = 1
    /\ \A stage \in {"parse_resumes", "evaluate_candidates"} :
          \E c \in CallsOf(stage) :
              /\ calls[c].kind = "json"
              /\ \E t \in 1..Len(calls[c].reply.text) :
                    calls[c].reply.text[t] = Member("filename", Str("other"))

====
